---- MODULE Spec2Model ----
(***************************************************************************)
(* A model of src/addons/pull.js: the script that mirrors the upstream     *)
(* addon repository into the build tree and generates the manifests, the   *)
(* localization bundles and the entry tables.                              *)
(*                                                                         *)
(* Text is modelled at the granularity the script inspects it: a source    *)
(* file is a sequence of tokens (the substrings the script searches for),  *)
(* a JSON document is the value it parses to, a generated document is the  *)
(* sequence of the pieces the script concatenates.                         *)
(***************************************************************************)
EXTENDS Integers, Sequences, FiniteSets, TLC

(***************************************************************************)
(* Bounds of the model.                                                    *)
(***************************************************************************)
MaxAddons == 2      \* longest addon list (addons.js)
MaxItems == 2       \* longest item collection handed to generateEntries
MaxEntries == 1     \* longest userscripts / userstyles list of a manifest
MaxTokens == 3      \* longest source file, in tokens
MaxRuns == 2        \* consecutive runs of the script on the same tree

VARIABLES
    pc,                 \* position of the main (synchronous) control flow
    idx,                \* index of the loop the main control flow is in
    run,                \* number of the current process, 1..MaxRuns
    argv,               \* process.argv, as the set of its arguments
    repo,               \* "present" / "absent": the ScratchAddons checkout
    tree,               \* contents of the upstream tree (addons, addons-l10n)
    addons,             \* the addon list exported by addons.js
    newAddons,          \* the new-addon list exported by addons.js
    fs,                 \* the output directories: path -> file
    cleared,            \* output directories removed and recreated by this run
    commitHash,         \* result of git rev-parse --short HEAD
    reqState,           \* the contributor request: none / pending / written / threw
    exitStatus,         \* exit status of the process ("0", "1"), "running" until it ends
    addonIdToManifest,  \* id -> parsed manifest
    languages,          \* locale names collected by the locale loop
    prev,               \* output tree left by the previous completed run
    args,               \* arguments of a function applied on its own
    ret                 \* its result, Pending until it is applied

pipelineVars == <<pc, idx, run, argv, repo, tree, addons, newAddons, fs, cleared,
                  commitHash, reqState, exitStatus, addonIdToManifest, languages, prev>>
vars == <<pc, idx, run, argv, repo, tree, addons, newAddons, fs, cleared,
          commitHash, reqState, exitStatus, addonIdToManifest, languages, prev, args, ret>>

(***************************************************************************)
(* Generic helpers.                                                        *)
(***************************************************************************)
Range(s) == {s[k] : k \in DOMAIN s}

SeqsUpTo(S, n) == UNION {[1..k -> S] : k \in 0..n}

NoDuplicates(s) == \A j, k \in DOMAIN s : j # k => s[j] # s[k]

EmptyMap == [k \in {} |-> TRUE]

\* the value of a JavaScript expression that has no value
undefined == "<undefined>"

\* JSON.stringify of a string (or of undefined, as a template prints it)
JSONstringify(v) == IF v = undefined THEN "undefined" ELSE "\"" \o v \o "\""

\* an exception leaving a function
Throw(e) == [threw |-> TRUE, error |-> e]

Return(v) == [threw |-> FALSE, value |-> v]

\* the result of a function that has not been applied yet
Pending == [pending |-> TRUE]

(***************************************************************************)
(* generateEntries: the entry-table generator.                             *)
(***************************************************************************)
EntryTypes == {"lazy-import", "lazy-require", "eager-import"}

\* a variant of generateEntriesStep that skips an item of unknown type
generateEntriesStepSkipUnknown(acc, i, r) ==
    IF r.type = "lazy-import"
    THEN [acc EXCEPT !.exportSection = Append(@,
            [key |-> JSONstringify(i), loader |-> "import",
             webpackChunkName |-> JSONstringify(r.name), src |-> JSONstringify(r.src)])]
    ELSE IF r.type = "lazy-require"
    THEN [acc EXCEPT !.exportSection = Append(@,
            [key |-> JSONstringify(i), loader |-> "require", src |-> JSONstringify(r.src)])]
    ELSE IF r.type = "eager-import"
    THEN LET importName == "_import" \o ToString(acc.importCount)
         IN [acc EXCEPT !.importCount = @ + 1,
                        !.importSection = Append(@,
                            [importName |-> importName, src |-> JSONstringify(r.src)]),
                        !.exportSection = Append(@,
                            [key |-> JSONstringify(i), binding |-> importName])]
    ELSE acc

\* one iteration of the loop of generateEntries: item i, classified as r
generateEntriesStep(acc, i, r) ==
    IF r.type = "lazy-import"
    THEN [acc EXCEPT !.exportSection = Append(@,
            [key |-> JSONstringify(i), loader |-> "import",
             webpackChunkName |-> JSONstringify(r.name), src |-> JSONstringify(r.src)])]
    ELSE IF r.type = "lazy-require"
    THEN [acc EXCEPT !.exportSection = Append(@,
            [key |-> JSONstringify(i), loader |-> "require", src |-> JSONstringify(r.src)])]
    ELSE IF r.type = "eager-import"
    THEN LET importName == "_import" \o ToString(acc.importCount)
         IN [acc EXCEPT !.importCount = @ + 1,
                        !.importSection = Append(@,
                            [importName |-> importName, src |-> JSONstringify(r.src)]),
                        !.exportSection = Append(@,
                            [key |-> JSONstringify(i), binding |-> importName])]
    ELSE [acc EXCEPT !.threw = TRUE, !.error = "Unknown type: " \o r.type]

RECURSIVE generateEntriesLoop(_, _, _, _)
generateEntriesLoop(items, callback, k, acc) ==
    IF acc.threw \/ k > Len(items)
    THEN acc
    ELSE generateEntriesLoop(items, callback, k + 1,
                             generateEntriesStep(acc, items[k], callback[items[k]]))

\* generateEntries(items, callback); callback is the function item -> {src, name, type}
generateEntries(items, callback) ==
    LET acc == generateEntriesLoop(items, callback, 1,
                   [importSection |-> <<>>, importCount |-> 0, exportSection |-> <<>>,
                    threw |-> FALSE, error |-> ""])
    IN IF acc.threw
       THEN Throw(acc.error)
       ELSE Return([header |-> "/* generated by pull.js */",
                    importSection |-> acc.importSection,
                    exportSection |-> acc.exportSection])

(***************************************************************************)
(* generateEntries applied on its own, to any classification.              *)
(***************************************************************************)
ItemNames == {"en", "fr", "pt"}

CallbackTypes == EntryTypes \cup {"lazy", undefined}

\* the script is not running: a function of it is applied on its own
IdleDriver ==
    /\ pc = "idle" /\ idx = 0 /\ run = 0 /\ argv = {} /\ repo = "absent"
    /\ tree = EmptyMap /\ fs = EmptyMap /\ cleared = {} /\ commitHash = undefined
    /\ reqState = "none" /\ exitStatus = "running" /\ languages = <<>>
    /\ prev = [complete |-> FALSE]

IdlePipeline ==
    /\ IdleDriver
    /\ addons = <<>> /\ newAddons = <<>> /\ addonIdToManifest = EmptyMap

InitEntries ==
    /\ IdlePipeline
    /\ args \in [items : SeqsUpTo(ItemNames, MaxItems) \ {<<>>},
                 types : [ItemNames -> CallbackTypes]]
    /\ ret = Pending

entriesCallback(i) == [src |-> "../src/" \o i, name |-> "chunk-" \o i, type |-> args.types[i]]

CallGenerateEntries ==
    /\ ret = Pending
    /\ ret' = generateEntries(args.items, [i \in Range(args.items) |-> entriesCallback(i)])
    /\ UNCHANGED <<pipelineVars, args>>

NextEntries == CallGenerateEntries

SpecEntries == InitEntries /\ [][NextEntries]_vars

\* C9: generateEntries raises, and returns no document, whenever some item of
\* the collection is classified with a type other than lazy-import,
\* lazy-require or eager-import, wherever that item stands; otherwise it
\* returns a document with one entry per item, in order, in which the
\* eager-import items are bound to pairwise distinct internal names, each
\* declared by exactly one import, and lazy items declare no import.
C9_UnknownTypeRaises ==
    ret # Pending =>
        LET items == args.items
            unknown == \E k \in DOMAIN items : args.types[items[k]] \notin EntryTypes
            eager == {k \in DOMAIN items : args.types[items[k]] = "eager-import"}
        IN IF unknown
           THEN ret.threw /\ "value" \notin DOMAIN ret
           ELSE /\ ~ret.threw
                /\ Len(ret.value.exportSection) = Len(items)
                /\ \A k \in DOMAIN items :
                      LET e == ret.value.exportSection[k]
                      IN /\ e.key = JSONstringify(items[k])
                         /\ ("binding" \in DOMAIN e) <=> (k \in eager)
                /\ \A j, k \in eager :
                      j # k => ret.value.exportSection[j].binding
                                 # ret.value.exportSection[k].binding
                /\ Len(ret.value.importSection) = Cardinality(eager)
                /\ {ret.value.importSection[n].importName :
                        n \in DOMAIN ret.value.importSection}
                     = {ret.value.exportSection[k].binding : k \in eager}

C9_Witness ==
    /\ ret # Pending
    /\ Len(args.items) = 2
    /\ args.types[args.items[1]] = "eager-import"
    /\ args.types[args.items[2]] = "lazy"
    /\ ret.threw

(***************************************************************************)
(* generateManifestEntry and generateRuntimeEntry: the manifest            *)
(* transformer.  A manifest is the value addon.json parses to: a function  *)
(* from the keys it has to their values.                                   *)
(***************************************************************************)
Has(obj, k) == k \in DOMAIN obj

\* delete obj[k]
Delete(obj, k) == [x \in DOMAIN obj \ {k} |-> obj[x]]

RECURSIVE DeleteAll(_, _)
DeleteAll(obj, keys) ==
    IF keys = <<>> THEN obj ELSE DeleteAll(Delete(obj, Head(keys)), Tail(keys))

\* clone(obj) = JSON.parse(JSON.stringify(obj)): a deep copy, so that the
\* deletions below leave the manifest the caller holds untouched.  Every
\* value of a manifest comes from JSON.parse, which the round trip preserves.
clone(obj) == obj

KEEP_TAGS == {"recommended", "theme", "beta", "danger"}

\* the first statements of generateManifestEntry: they change manifest.tags of
\* the object the caller passed
filterTags(id, manifest) ==
    LET kept == SelectSeq(manifest.tags, LAMBDA i : i \in KEEP_TAGS)
    IN [manifest EXCEPT !["tags"] = IF id \in Range(newAddons) THEN Append(kept, "new")
                                                              ELSE kept]

\* a variant of TrimmedKeys that forgets the permission list
TrimmedKeysWithoutPermissions ==
    <<"versionAdded", "libraries", "injectAsStyleElt", "enabledByDefaultMobile">>

\* the keys deleted from the copy of the manifest
TrimmedKeys ==
    <<"versionAdded", "libraries", "injectAsStyleElt", "enabledByDefaultMobile",
      "permissions">>

\* the loop over trimmedManifest.userscripts
trimUserscripts(userscripts) ==
    [k \in DOMAIN userscripts |-> DeleteAll(userscripts[k], <<"matches", "runAtComplete">>)]

\* the loop over trimmedManifest.userstyles
trimUserstyles(userstyles) ==
    [k \in DOMAIN userstyles |-> DeleteAll(userstyles[k], <<"matches">>)]

trimManifest(manifest) ==
    LET t0 == DeleteAll(clone(manifest), TrimmedKeys)
        t1 == IF Has(t0, "userscripts")
              THEN [t0 EXCEPT !["userscripts"] = trimUserscripts(@)] ELSE t0
        t2 == IF Has(t1, "userstyles")
              THEN [t1 EXCEPT !["userstyles"] = trimUserstyles(@)] ELSE t1
    IN t2

\* the statements appended after the serialized manifest
manifestStatements(id, manifest) ==
    (IF Has(manifest, "enabledByDefaultMobile")
        /\ manifest.enabledByDefaultMobile \in BOOLEAN
     THEN <<[import |-> "isMobile", enabledByDefault |-> manifest.enabledByDefaultMobile]>>
     ELSE <<>>)
    \o (IF Has(manifest, "permissions") /\ "clipboardWrite" \in Range(manifest.permissions)
        THEN <<[import |-> "clipboardSupported", unsupported |-> TRUE]>>
        ELSE <<>>)
    \o (IF id = "mediarecorder"
        THEN <<[import |-> "mediaRecorderSupported", unsupported |-> TRUE]>>
        ELSE <<>>)

generateManifestEntry(id, manifest) ==
    IF ~Has(manifest, "tags")
    THEN Throw("TypeError: Cannot read properties of undefined (reading 'filter')")
    ELSE LET tagged == filterTags(id, manifest)
         IN Return([header |-> "/* generated by pull.js */",
                    manifest |-> trimManifest(tagged),
                    statements |-> manifestStatements(id, tagged),
                    export |-> "export default manifest;"])

ListOf(obj, k) == IF Has(obj, k) THEN obj[k] ELSE <<>>

generateRuntimeEntry(id, manifest) ==
    [header |-> "/* generated by pull.js */",
     resources |->
        [k \in DOMAIN ListOf(manifest, "userscripts") |->
            [key |-> JSONstringify(manifest.userscripts[k].url),
             require |-> JSONstringify("./" \o manifest.userscripts[k].url)]]
        \o [k \in DOMAIN ListOf(manifest, "userstyles") |->
            [key |-> JSONstringify(manifest.userstyles[k].url),
             require |-> JSONstringify("!css-loader!./" \o manifest.userstyles[k].url)]]]

(***************************************************************************)
(* generateManifestEntry applied on its own, to any manifest.              *)
(***************************************************************************)
Opt(k, V) == {EmptyMap} \cup {k :> v : v \in V}

ScriptEntries(url) ==
    {("url" :> url) @@ m @@ r :
        m \in Opt("matches", {<<"projects">>}), r \in Opt("runAtComplete", {FALSE})}

ScriptLists(k, url) == Opt(k, SeqsUpTo(ScriptEntries(url), MaxEntries))

AddonIds == {"a", "mediarecorder"}

Manifests ==
    {("name" :> "Addon") @@ t @@ v @@ l @@ i @@ m @@ p @@ us @@ ust :
        t \in Opt("tags", {<<"recommended", "experimental", "beta">>}),
        v \in Opt("versionAdded", {"1.0.0"}),
        l \in Opt("libraries", {<<"thirdparty/cs/chart.min.js">>}),
        i \in Opt("injectAsStyleElt", {TRUE}),
        m \in Opt("enabledByDefaultMobile", BOOLEAN),
        p \in Opt("permissions", {<<"clipboardWrite">>, <<"notifications">>}),
        us \in ScriptLists("userscripts", "userscript.js"),
        ust \in ScriptLists("userstyles", "style.css")}

InitManifest ==
    /\ IdleDriver
    /\ addons = <<>> /\ addonIdToManifest = EmptyMap
    /\ newAddons = <<"a">>
    /\ args \in [id : AddonIds, manifest : Manifests]
    /\ ret = Pending

CallGenerateManifestEntry ==
    /\ ret = Pending
    /\ ret' = generateManifestEntry(args.id, args.manifest)
    /\ UNCHANGED <<pipelineVars, args>>

NextManifest == CallGenerateManifestEntry

SpecManifest == InitManifest /\ [][NextManifest]_vars

NoKey(list, k) == \A n \in DOMAIN list : ~Has(list[n], k)

\* C4, as stated: the serialized manifest has none of the five internal keys,
\* and no entry of userscripts or of userstyles keeps matches or runAtComplete.
C4_NoInternalKeys ==
    (ret # Pending /\ ~ret.threw) =>
        LET m == ret.value.manifest
        IN /\ \A k \in {"versionAdded", "libraries", "injectAsStyleElt",
                        "enabledByDefaultMobile", "permissions"} : ~Has(m, k)
           /\ NoKey(ListOf(m, "userscripts"), "matches")
           /\ NoKey(ListOf(m, "userscripts"), "runAtComplete")
           /\ NoKey(ListOf(m, "userstyles"), "matches")
           /\ NoKey(ListOf(m, "userstyles"), "runAtComplete")

\* C4, amended: the serialized manifest has none of the keys versionAdded,
\* libraries, injectAsStyleElt, enabledByDefaultMobile, permissions; no entry
\* of userscripts keeps matches or runAtComplete; no entry of userstyles keeps
\* matches (a runAtComplete key of a userstyle is kept as it is).
C4_NoInternalKeysButUserstyleRunAtComplete ==
    (ret # Pending /\ ~ret.threw) =>
        LET m == ret.value.manifest
        IN /\ \A k \in {"versionAdded", "libraries", "injectAsStyleElt",
                        "enabledByDefaultMobile", "permissions"} : ~Has(m, k)
           /\ NoKey(ListOf(m, "userscripts"), "matches")
           /\ NoKey(ListOf(m, "userscripts"), "runAtComplete")
           /\ NoKey(ListOf(m, "userstyles"), "matches")
           /\ \A n \in DOMAIN ListOf(m, "userstyles") :
                 Has(m.userstyles[n], "runAtComplete")
                    <=> Has(args.manifest.userstyles[n], "runAtComplete")

C4_Witness ==
    /\ ret # Pending /\ ~ret.threw
    /\ \A k \in {"versionAdded", "libraries", "injectAsStyleElt",
                 "enabledByDefaultMobile", "permissions"} : Has(args.manifest, k)
    /\ Has(args.manifest, "userscripts") /\ Has(args.manifest, "userstyles")
    /\ \E n \in DOMAIN args.manifest.userscripts :
          /\ Has(args.manifest.userscripts[n], "matches")
          /\ Has(args.manifest.userscripts[n], "runAtComplete")
    /\ \E n \in DOMAIN args.manifest.userstyles :
          /\ Has(args.manifest.userstyles[n], "matches")
          /\ Has(args.manifest.userstyles[n], "runAtComplete")
          /\ Has(ret.value.manifest.userstyles[n], "runAtComplete")

(***************************************************************************)
(* The text rewriters.  The contents of a text file are the sequence of    *)
(* its lines; a needle without a line break is in the contents exactly     *)
(* when it is in one of the lines.                                         *)
(***************************************************************************)
\* String.prototype.includes
strIncludes(str, needle) ==
    \E k \in 1..(Len(str) - Len(needle) + 1) : SubSeq(str, k, k + Len(needle) - 1) = needle

\* String.prototype.endsWith
endsWith(str, suffix) ==
    /\ Len(str) >= Len(suffix)
    /\ SubSeq(str, Len(str) - Len(suffix) + 1, Len(str)) = suffix

\* contents.includes(needle)
includes(contents, needle) == \E k \in DOMAIN contents : strIncludes(contents[k], needle)

\* the lines of the addon sources the rewriters react to, and one they do not
LineEventTarget == "const target = new EventTarget();"
LineDirConcat == "el.src = addon.self.dir + \"/icon.svg\";"
LineLibConcat == "img.src = addon.self.lib + \"/x.png\";"
LineDirBare == "console.log(addon.self.dir);"
LineLibraryImport == "import RateLimiter from \"../../libraries/rate-limiter.js\";"
LineCode == "export default async function () {}"

SourceLines ==
    {LineEventTarget, LineDirConcat, LineLibConcat, LineDirBare, LineLibraryImport,
     LineCode}

\* the library files the import regular expression captures in a line
importedLibrary(line) ==
    IF line = LineLibraryImport THEN <<"rate-limiter.js">> ELSE <<>>

RECURSIVE Flatten(_)
Flatten(ss) == IF ss = <<>> THEN <<>> ELSE Head(ss) \o Flatten(Tail(ss))

\* includeImportedLibraries: the library files copied to the libraries directory
includeImportedLibraries(contents) ==
    Flatten([k \in DOMAIN contents |-> importedLibrary(contents[k])])

PolyfillImport == "import EventTarget from \"../../event-target.js\"; /* inserted by pull.js */"
BlankLine == ""

\* a variant of includePolyfills that adds the import after the contents
includePolyfillsAtEnd(contents) ==
    IF includes(contents, "EventTarget")
    THEN contents \o <<PolyfillImport, BlankLine>>
    ELSE contents

includePolyfills(contents) ==
    IF includes(contents, "EventTarget")
    THEN <<PolyfillImport, BlankLine>> \o contents
    ELSE contents

\* the replacements of includeImports, on one line: the concatenation of
\* addon.self.dir or addon.self.lib with a suffix becomes a call of the
\* resolver on the suffix; a line without such a concatenation is kept
rewriteAssetPaths(line) ==
    IF line = LineLibConcat THEN "img.src = _twGetAsset(\"/x.png\");"
    ELSE IF line = LineDirConcat THEN "el.src = _twGetAsset(\"/icon.svg\");"
    ELSE line

\* JSON.stringify(path) with every backslash pair replaced by a slash: the
\* paths here have no backslash
stringifyPath(path) == JSONstringify(path)

\* the header of includeImports for the assets found by walk(folder)
assetHeader(dynamicAssets) ==
    <<"/* inserted by pull.js */">>
    \o [k \in DOMAIN dynamicAssets |->
          "import _twAsset" \o ToString(k - 1) \o " from "
          \o stringifyPath("!url-loader!./" \o dynamicAssets[k]) \o ";"]
    \o <<"const _twGetAsset = (path) => {">>
    \o [k \in DOMAIN dynamicAssets |->
          "  if (path === " \o stringifyPath("/" \o dynamicAssets[k])
          \o ") return _twAsset" \o ToString(k - 1) \o ";"]
    \o <<"  throw new Error(\"Unknown asset: \" + path);", "};", BlankLine>>

\* the file names of the model, in the order readdirSync lists them
FileOrder == <<"addon.json", "icon.svg", "style.css", "userscript.js">>

\* walk(dir): the files of a directory (a function file -> contents)
walk(dir) == SelectSeq(FileOrder, LAMBDA f : f \in DOMAIN dir)

includeImports(folder, contents) ==
    LET dynamicAssets == SelectSeq(walk(folder),
                                   LAMBDA f : endsWith(f, ".svg") \/ endsWith(f, ".png"))
    IN assetHeader(dynamicAssets) \o [k \in DOMAIN contents |-> rewriteAssetPaths(contents[k])]

(***************************************************************************)
(* processAddon.  A file is [text |-> lines], [json |-> value] when its    *)
(* text is the serialization of value, or [binary |-> data].               *)
(***************************************************************************)
NoDirectory == [enoent |-> TRUE]

Put(f, k, v) == (k :> v) @@ f

\* the body of the loop of processAddon for one file that is not addon.json
rewriteFile(oldDirectory, file, contents) ==
    IF endsWith(file, ".js")
    THEN LET polyfilled == includePolyfills(contents.text)
         IN IF includes(polyfilled, "addon.self.dir") \/ includes(polyfilled, "addon.self.lib")
            THEN [text |-> includeImports(oldDirectory, polyfilled)]
            ELSE [text |-> polyfilled]
    ELSE contents

processAddonStep(id, oldDirectory, acc, file) ==
    LET contents == oldDirectory[file]
    IN IF file = "addon.json"
       THEN IF ~Has(contents, "json")
            THEN [acc EXCEPT !.threw = TRUE, !.error = "SyntaxError"]
            ELSE LET parsedManifest == contents.json
                     entry == generateManifestEntry(id, parsedManifest)
                 IN IF entry.threw
                    THEN [acc EXCEPT !.threw = TRUE, !.error = entry.error]
                    ELSE [acc EXCEPT
                            !.manifest = "manifest" :> filterTags(id, parsedManifest),
                            !.files = Put(Put(@, "_manifest_entry.js", entry.value),
                                          "_runtime_entry.js",
                                          generateRuntimeEntry(id, parsedManifest))]
       ELSE [acc EXCEPT
               !.libraries = IF endsWith(file, ".js")
                             THEN @ \o includeImportedLibraries(contents.text) ELSE @,
               !.files = Put(@, file, rewriteFile(oldDirectory, file, contents))]

RECURSIVE processAddonLoop(_, _, _, _)
processAddonLoop(id, oldDirectory, files, acc) ==
    IF acc.threw \/ files = <<>>
    THEN acc
    ELSE processAddonLoop(id, oldDirectory, Tail(files),
                          processAddonStep(id, oldDirectory, acc, Head(files)))

\* processAddon(id, oldDirectory, newDirectory): the files written to
\* newDirectory, the library files copied, and the manifest recorded in
\* addonIdToManifest[id], up to the point where it throws if it does
processAddon(id, oldDirectory) ==
    IF oldDirectory = NoDirectory
    THEN [threw |-> TRUE, error |-> "ENOENT", files |-> EmptyMap, libraries |-> <<>>,
          manifest |-> EmptyMap]
    ELSE processAddonLoop(id, oldDirectory, walk(oldDirectory),
            [threw |-> FALSE, error |-> "", files |-> EmptyMap, libraries |-> <<>>,
             manifest |-> EmptyMap])

(***************************************************************************)
(* processAddon applied on its own, to a directory with one script.        *)
(***************************************************************************)
Scripts == {[text |-> t] : t \in SeqsUpTo(SourceLines, MaxTokens)}

ScriptDirectories ==
    {("userscript.js" :> s) @@ a @@ c :
        s \in Scripts,
        a \in Opt("icon.svg", {[binary |-> "<svg/>"]}),
        c \in Opt("style.css", {[text |-> <<"/* EventTarget addon.self.dir */">>]})}

InitFiles ==
    /\ IdlePipeline
    /\ args \in [id : {"a"}, oldDirectory : ScriptDirectories]
    /\ ret = Pending

CallProcessAddon ==
    /\ ret = Pending
    /\ ret' = processAddon(args.id, args.oldDirectory)
    /\ UNCHANGED <<pipelineVars, args>>

NextFiles == CallProcessAddon

SpecFiles == InitFiles /\ [][NextFiles]_vars

Count(s, x) == Cardinality({k \in DOMAIN s : s[k] = x})

StartsWith(s, p) == Len(s) >= Len(p) /\ SubSeq(s, 1, Len(p)) = p

\* the source of the script and what was written for it
SourceText == args.oldDirectory["userscript.js"].text
WrittenText == ret.files["userscript.js"].text
SourceHasEventTarget == \E k \in DOMAIN SourceText : SourceText[k] = LineEventTarget
SourceHasAssetPath ==
    \E k \in DOMAIN SourceText : SourceText[k] \in {LineDirConcat, LineLibConcat, LineDirBare}

\* C6, as stated: in a written .js file whose source has the token
\* EventTarget, the polyfill import and a blank line are the very first text
\* and the import occurs once, whether or not the asset paths are rewritten;
\* a file without the token gets no polyfill import.
C6_PolyfillFirst ==
    ret # Pending =>
        /\ SourceHasEventTarget =>
              /\ StartsWith(WrittenText, <<PolyfillImport, BlankLine>>)
              /\ Count(WrittenText, PolyfillImport) = 1
        /\ ~SourceHasEventTarget => Count(WrittenText, PolyfillImport) = 0
        /\ \A f \in DOMAIN ret.files :
              ~endsWith(f, ".js") => ret.files[f] = args.oldDirectory[f]

\* C6, amended: in a written .js file whose source has the token EventTarget
\* the polyfill import followed by a blank line occurs exactly once; it is the
\* very first text of the file when the asset-path rewriting is not applied to
\* the file, and it directly follows the synthesized header (which then is the
\* first text) when it is applied.  A file without the token gets no polyfill
\* import, and a file that is not a .js file is copied as it is.
C6_PolyfillFirstOrAfterHeader ==
    ret # Pending =>
        LET header == assetHeader(IF Has(args.oldDirectory, "icon.svg")
                                  THEN <<"icon.svg">> ELSE <<>>)
        IN /\ (SourceHasEventTarget /\ ~SourceHasAssetPath) =>
                 /\ StartsWith(WrittenText, <<PolyfillImport, BlankLine>>)
                 /\ Count(WrittenText, PolyfillImport) = 1
           /\ (SourceHasEventTarget /\ SourceHasAssetPath) =>
                 /\ StartsWith(WrittenText, header \o <<PolyfillImport, BlankLine>>)
                 /\ Count(WrittenText, PolyfillImport) = 1
           /\ ~SourceHasEventTarget => Count(WrittenText, PolyfillImport) = 0
           /\ \A f \in DOMAIN ret.files :
                 ~endsWith(f, ".js") => ret.files[f] = args.oldDirectory[f]

C6_Witness ==
    /\ ret # Pending
    /\ Count(SourceText, LineEventTarget) = 2
    /\ Count(SourceText, LineDirConcat) = 1
    /\ Has(ret.files, "style.css")
    /\ WrittenText[1] = "/* inserted by pull.js */"
    /\ Count(WrittenText, PolyfillImport) = 1

(***************************************************************************)
(* parseMessages: the locale partitioner.  A JavaScript object is the      *)
(* sequence of its keys, in insertion order, with the value of each.       *)
(***************************************************************************)
EmptyObject == [keys |-> <<>>, get |-> EmptyMap]

\* a variant of SetProperty that keeps the value a key already has
SetPropertyKeepFirst(obj, id, value) ==
    IF id \in Range(obj.keys)
    THEN obj
    ELSE [keys |-> Append(obj.keys, id), get |-> (id :> value) @@ obj.get]

\* obj[id] = value
SetProperty(obj, id, value) ==
    IF id \in Range(obj.keys)
    THEN [obj EXCEPT !.get[id] = value]
    ELSE [keys |-> Append(obj.keys, id), get |-> (id :> value) @@ obj.get]

SKIP_MESSAGES ==
    {"debugger/feedback-log",
     "debugger/feedback-log-link",
     "debugger/feedback-remove",
     "editor-devtools/help-by",
     "editor-devtools/extension-description-not-for-addon",
     "mediarecorder/added-by",
     "editor-theme3/@settings-name-sa-color",
     "block-switching/@settings-name-sa"}

\* the message ids of the model, in lexicographic order
MessageOrder ==
    <<"block-switching/@settings-name-sa", "debugger/feedback-log", "foo/@settings-name",
      "foo/bar">>

\* Object.keys(parsed).sort()
sortedKeys(parsed) == SelectSeq(MessageOrder, LAMBDA id : id \in DOMAIN parsed)

RECURSIVE parseCatalog(_, _, _)
\* the loop over the message ids of one parsed catalog
parseCatalog(acc, parsed, ids) ==
    IF ids = <<>>
    THEN acc
    ELSE LET id == Head(ids)
             value == parsed[id]
             next == IF id \in SKIP_MESSAGES
                     THEN acc
                     ELSE IF strIncludes(id, "/@")
                     THEN [acc EXCEPT !.settings = SetProperty(@, id, value)]
                     ELSE [acc EXCEPT !.runtime = SetProperty(@, id, value)]
         IN parseCatalog(next, parsed, Tail(ids))

\* the body of the try block for one addon: readFileSync throws when the file
\* is absent, JSON.parse when its text is no JSON, Object.keys when the text
\* is the JSON null; the catch block ignores all three
parseAddonMessages(acc, localeDirectory, addon) ==
    LET path == addon \o ".json"
    IN IF ~Has(localeDirectory, path)
       THEN acc
       ELSE IF ~Has(localeDirectory[path], "json")
       THEN acc
       ELSE parseCatalog(acc, localeDirectory[path].json,
                         sortedKeys(localeDirectory[path].json))

RECURSIVE parseMessagesLoop(_, _, _)
parseMessagesLoop(acc, localeDirectory, k) ==
    IF k > Len(addons)
    THEN acc
    ELSE parseMessagesLoop(parseAddonMessages(acc, localeDirectory, addons[k]),
                           localeDirectory, k + 1)

parseMessages(localeDirectory) ==
    Return(parseMessagesLoop([settings |-> EmptyObject, runtime |-> EmptyObject],
                             localeDirectory, 1))

(***************************************************************************)
(* parseMessages applied on its own, to any locale directory.              *)
(***************************************************************************)
MessageValues == {"x", "y"}

Catalogs == UNION {[ids -> MessageValues] : ids \in SUBSET Range(MessageOrder)}

CatalogFiles ==
    {[json |-> c] : c \in Catalogs} \cup {[text |-> <<"{">>], [jsonNull |-> TRUE]}

LocaleDirectories ==
    {a @@ b : a \in Opt("a.json", CatalogFiles), b \in Opt("mediarecorder.json", CatalogFiles)}

AddonLists == SeqsUpTo(AddonIds, MaxAddons)

InitLocale ==
    /\ IdleDriver
    /\ addons \in AddonLists
    /\ newAddons = <<>> /\ addonIdToManifest = EmptyMap
    /\ args \in [localePath : LocaleDirectories]
    /\ ret = Pending

CallParseMessages ==
    /\ ret = Pending
    /\ ret' = parseMessages(args.localePath)
    /\ UNCHANGED <<pipelineVars, args>>

NextLocale == CallParseMessages

SpecLocale == InitLocale /\ [][NextLocale]_vars

\* the reference of C7
CatalogOf(k) == args.localePath[addons[k] \o ".json"].json
Parsed(k) ==
    /\ Has(args.localePath, addons[k] \o ".json")
    /\ Has(args.localePath[addons[k] \o ".json"], "json")
Defines(k, id) == Parsed(k) /\ id \in DOMAIN CatalogOf(k)
Excluded(id) ==
    id \in {"debugger/feedback-log", "debugger/feedback-log-link", "debugger/feedback-remove",
            "editor-devtools/help-by", "editor-devtools/extension-description-not-for-addon",
            "mediarecorder/added-by", "editor-theme3/@settings-name-sa-color",
            "block-switching/@settings-name-sa"}
DefinedIds == {id \in Range(MessageOrder) : ~Excluded(id) /\ \E k \in DOMAIN addons : Defines(k, id)}
FirstAddon(id) == CHOOSE k \in DOMAIN addons : Defines(k, id) /\ \A j \in 1..(k - 1) : ~Defines(j, id)
LastAddon(id) ==
    CHOOSE k \in DOMAIN addons : Defines(k, id) /\ \A j \in (k + 1)..Len(addons) : ~Defines(j, id)
Position(s, x) == CHOOSE k \in DOMAIN s : s[k] = x
IsSettingsId(id) == \E k \in 1..(Len(id) - 1) : SubSeq(id, k, k + 1) = "/@"

MatchesReference(obj, ids) ==
    /\ NoDuplicates(obj.keys)
    /\ Range(obj.keys) = ids
    /\ DOMAIN obj.get = ids
    /\ \A id \in ids : obj.get[id] = CatalogOf(LastAddon(id))[id]
    /\ \A i, j \in DOMAIN obj.keys :
          i < j => \/ FirstAddon(obj.keys[i]) < FirstAddon(obj.keys[j])
                   \/ /\ FirstAddon(obj.keys[i]) = FirstAddon(obj.keys[j])
                      /\ Position(MessageOrder, obj.keys[i]) < Position(MessageOrder, obj.keys[j])

\* C7: parseMessages never raises, and its result is the reference: over the
\* addons of the list whose catalog file is present and parses, in list order
\* and within a catalog in lexicographic order of the ids, an id of the
\* exclusion list is in neither group, an id with the marker "/@" is only in
\* the settings group, every other id only in the runtime group, and an id
\* several addons define carries the value of the last of them in the list.
C7_ParseMessagesReference ==
    ret # Pending =>
        /\ ~ret.threw
        /\ MatchesReference(ret.value.settings, {id \in DefinedIds : IsSettingsId(id)})
        /\ MatchesReference(ret.value.runtime, {id \in DefinedIds : ~IsSettingsId(id)})

C7_Witness ==
    /\ ret # Pending
    /\ addons = <<"a", "mediarecorder">>
    /\ Parsed(1) /\ Parsed(2)
    /\ DOMAIN CatalogOf(1) = Range(MessageOrder)
    /\ Defines(2, "foo/bar") /\ CatalogOf(1)["foo/bar"] # CatalogOf(2)["foo/bar"]
    /\ ret.value.runtime.get["foo/bar"] = CatalogOf(2)["foo/bar"]
    /\ ret.value.settings.keys = <<"foo/@settings-name">>

(***************************************************************************)
(* The four call sites of generateEntries.                                 *)
(***************************************************************************)
generateL10nEntries(locales) ==
    generateEntries(SelectSeq(locales, LAMBDA i : i # "en"),
        [locale \in Range(locales) |->
            [name |-> "addon-l10n-" \o locale,
             src |-> "../addons-l10n/" \o locale \o ".json",
             type |-> "lazy-import"]])

generateL10nSettingsEntries(locales) ==
    generateEntries(SelectSeq(locales, LAMBDA i : i # "en"),
        [locale \in Range(locales) |->
            [name |-> undefined,
             src |-> "../addons-l10n-settings/" \o locale \o ".json",
             type |-> "lazy-require"]])

\* the truth value JavaScript gives manifest[k], a boolean when it is present
Truthy(manifest, k) == Has(manifest, k) /\ manifest[k] = TRUE

\* a variant of runtimeEntryCallback that does not look at editorOnly
runtimeEntryCallbackIgnoringEditorOnly(id) ==
    LET manifest == addonIdToManifest[id]
    IN [src |-> "../addons/" \o id \o "/_runtime_entry.js",
        name |-> IF Truthy(manifest, "enabledByDefault")
                 THEN "addon-default-entry" ELSE "addon-entry-" \o id,
        type |-> IF Truthy(manifest, "enabledByDefault")
                 THEN "lazy-require" ELSE "lazy-import"]

\* the classification callback of generateRuntimeEntries
runtimeEntryCallback(id) ==
    LET manifest == addonIdToManifest[id]
    IN [src |-> "../addons/" \o id \o "/_runtime_entry.js",
        name |-> IF Truthy(manifest, "enabledByDefault")
                 THEN "addon-default-entry" ELSE "addon-entry-" \o id,
        type |-> IF Truthy(manifest, "enabledByDefault") /\ ~Truthy(manifest, "editorOnly")
                 THEN "lazy-require" ELSE "lazy-import"]

\* generateRuntimeEntries: the callback reads a property of undefined, and
\* throws, for an addon that has no manifest in addonIdToManifest
generateRuntimeEntries ==
    IF \E k \in DOMAIN addons : ~Has(addonIdToManifest, addons[k])
    THEN Throw("TypeError: Cannot read properties of undefined (reading 'enabledByDefault')")
    ELSE generateEntries(addons, [id \in Range(addons) |-> runtimeEntryCallback(id)])

generateManifestEntries ==
    generateEntries(addons,
        [id \in Range(addons) |->
            [name |-> undefined,
             src |-> "../addons/" \o id \o "/_manifest_entry.js",
             type |-> "eager-import"]])

(***************************************************************************)
(* generateRuntimeEntries applied on its own, to any manifests.            *)
(***************************************************************************)
FlagManifests ==
    {("tags" :> <<>>) @@ d @@ e :
        d \in Opt("enabledByDefault", BOOLEAN), e \in Opt("editorOnly", BOOLEAN)}

InitRuntimeEntries ==
    /\ IdleDriver
    /\ addons \in AddonLists
    /\ newAddons = <<>>
    /\ addonIdToManifest \in UNION {[ids -> FlagManifests] : ids \in SUBSET AddonIds}
    /\ args = EmptyMap
    /\ ret = Pending

CallGenerateRuntimeEntries ==
    /\ ret = Pending
    /\ ret' = generateRuntimeEntries
    /\ UNCHANGED <<pipelineVars, args>>

NextRuntimeEntries == CallGenerateRuntimeEntries

SpecRuntimeEntries == InitRuntimeEntries /\ [][NextRuntimeEntries]_vars

IsTrue(manifest, k) == k \in DOMAIN manifest /\ manifest[k] = TRUE

\* C5: the addon runtime entry table has exactly one entry per addon of the
\* list, in list order; an addon with enabledByDefault true and editorOnly not
\* true gets a lazy-require entry with no chunk name, every other addon a
\* lazy-import entry whose chunk name is addon-default-entry when
\* enabledByDefault is true and addon-entry-<id> when it is not.
C5_RuntimeEntryTable ==
    (ret # Pending /\ ~ret.threw) =>
        /\ Len(ret.value.exportSection) = Len(addons)
        /\ ret.value.importSection = <<>>
        /\ \A k \in DOMAIN addons :
              LET id == addons[k]
                  m == addonIdToManifest[id]
                  e == ret.value.exportSection[k]
              IN /\ e.key = "\"" \o id \o "\""
                 /\ e.src = "\"../addons/" \o id \o "/_runtime_entry.js\""
                 /\ IF IsTrue(m, "enabledByDefault") /\ ~IsTrue(m, "editorOnly")
                    THEN e.loader = "require" /\ "webpackChunkName" \notin DOMAIN e
                    ELSE /\ e.loader = "import"
                         /\ e.webpackChunkName =
                               IF IsTrue(m, "enabledByDefault")
                               THEN "\"addon-default-entry\""
                               ELSE "\"addon-entry-" \o id \o "\""

C5_Witness ==
    /\ ret # Pending /\ ~ret.threw
    /\ Len(addons) = 2 /\ addons[1] # addons[2]
    /\ IsTrue(addonIdToManifest[addons[1]], "enabledByDefault")
    /\ IsTrue(addonIdToManifest[addons[1]], "editorOnly")
    /\ IsTrue(addonIdToManifest[addons[2]], "enabledByDefault")
    /\ ~IsTrue(addonIdToManifest[addons[2]], "editorOnly")
    /\ ret.value.exportSection[1].loader = "import"
    /\ ret.value.exportSection[2].loader = "require"

(***************************************************************************)
(* The pipeline driver: the statements of the script, in order.  The       *)
(* output directories are the function fs from <<directory, relative       *)
(* path>> to [contents, stale]; stale marks a file a previous run left.    *)
(***************************************************************************)
\* a variant of rimraf that leaves the files where they are
rimrafKeepingFiles(files, folder) == files

\* rimraf.sync(path) followed by fs.mkdirSync(path): the directory is empty
rimraf(files, folder) == [q \in {q \in DOMAIN files : q[1] # folder} |-> files[q]]

\* fs.writeFileSync(path, contents)
writeFileSync(files, path, contents) ==
    Put(files, path, [contents |-> contents, stale |-> FALSE])

RECURSIVE rimrafAll(_, _)
rimrafAll(files, folders) ==
    IF folders = <<>> THEN files ELSE rimrafAll(rimraf(files, Head(folders)), Tail(folders))

\* the folders of the first clearing loop
OutputFolders == <<"addons", "addons-l10n", "addons-l10n-settings", "libraries">>

GeneratedFolder == "generated"

generatedPath(name) == <<GeneratedFolder, name>>

Abort ==
    /\ pc' = "aborted"
    /\ exitStatus' = "1"

\* git clone: the checkout is replaced by the upstream tree at some commit
Commits == {"c0ffee1", "c0ffee2"}

\* if (!process.argv.includes('-')): rimraf the checkout and clone it
Clone ==
    /\ pc = "clone" /\ "-" \notin argv
    /\ \E commit \in Commits :
          /\ repo' = commit
          /\ pc' = "clear"
          /\ UNCHANGED exitStatus
    /\ UNCHANGED <<idx, run, argv, tree, addons, newAddons, fs, cleared, commitHash,
                   reqState, addonIdToManifest, languages, prev, args, ret>>

\* git clone exits with an error (no network): execSync throws
CloneFails ==
    /\ pc = "clone" /\ "-" \notin argv
    /\ repo' = "absent"
    /\ Abort
    /\ UNCHANGED <<idx, run, argv, tree, addons, newAddons, fs, cleared, commitHash,
                   reqState, addonIdToManifest, languages, prev, args, ret>>

SkipClone ==
    /\ pc = "clone" /\ "-" \in argv
    /\ pc' = "clear"
    /\ UNCHANGED <<idx, run, argv, repo, tree, addons, newAddons, fs, cleared, commitHash,
                   reqState, exitStatus, addonIdToManifest, languages, prev, args, ret>>

\* the loop that removes and recreates the four output folders
ClearOutputFolders ==
    /\ pc = "clear"
    /\ fs' = rimrafAll(fs, OutputFolders)
    /\ cleared' = cleared \cup Range(OutputFolders)
    /\ pc' = "clear-generated"
    /\ UNCHANGED <<idx, run, argv, repo, tree, addons, newAddons, commitHash,
                   reqState, exitStatus, addonIdToManifest, languages, prev, args, ret>>

ClearGenerated ==
    /\ pc = "clear-generated"
    /\ fs' = rimraf(fs, GeneratedFolder)
    /\ cleared' = cleared \cup {GeneratedFolder}
    /\ pc' = "rev-parse"
    /\ UNCHANGED <<idx, run, argv, repo, tree, addons, newAddons, commitHash,
                   reqState, exitStatus, addonIdToManifest, languages, prev, args, ret>>

\* process.chdir(repoPath) and git rev-parse --short HEAD
RevParse ==
    /\ pc = "rev-parse" /\ repo # "absent"
    /\ commitHash' = repo
    /\ pc' = "request"
    /\ UNCHANGED <<idx, run, argv, repo, tree, addons, newAddons, fs, cleared,
                   reqState, exitStatus, addonIdToManifest, languages, prev, args, ret>>

\* process.chdir throws when there is no checkout
ChdirFails ==
    /\ pc = "rev-parse" /\ repo = "absent"
    /\ Abort
    /\ UNCHANGED <<idx, run, argv, repo, tree, addons, newAddons, fs, cleared, commitHash,
                   reqState, addonIdToManifest, languages, prev, args, ret>>

\* request(url, callback): the request is sent, the callback runs later
Request ==
    /\ pc = "request"
    /\ reqState' = "pending"
    /\ pc' = "addons" /\ idx' = 1
    /\ UNCHANGED <<run, argv, repo, tree, addons, newAddons, fs, cleared, commitHash,
                   exitStatus, addonIdToManifest, languages, prev, args, ret>>

RECURSIVE writeAll(_, _, _, _)
\* the writes of the files of a directory, one writeFileSync each
writeAll(files, folder, prefix, written) ==
    IF DOMAIN written = {}
    THEN files
    ELSE LET f == CHOOSE f \in DOMAIN written : TRUE
         IN writeAll(writeFileSync(files, <<folder, prefix \o f>>, written[f]),
                     folder, prefix, [g \in DOMAIN written \ {f} |-> written[g]])

LibraryFile(name) == [text |-> <<"/* " \o name \o " */">>]

\* one iteration of the loop over addons: processAddon(addon, ...)
ProcessAddon ==
    /\ pc = "addons" /\ idx <= Len(addons)
    /\ LET addon == addons[idx]
           r == processAddon(addon, tree.addons[addon])
           libraries == [l \in Range(r.libraries) |-> LibraryFile(l)]
       IN /\ fs' = writeAll(writeAll(fs, "addons", addon \o "/", r.files),
                            "libraries", "", libraries)
          /\ addonIdToManifest' = IF Has(r.manifest, "manifest")
                                  THEN Put(addonIdToManifest, addon, r.manifest.manifest)
                                  ELSE addonIdToManifest
          /\ IF r.threw
             THEN Abort /\ UNCHANGED idx
             ELSE idx' = idx + 1 /\ UNCHANGED <<pc, exitStatus>>
    /\ UNCHANGED <<run, argv, repo, tree, addons, newAddons, cleared, commitHash,
                   reqState, languages, prev, args, ret>>

\* the names readdirSync lists in addons-l10n, in its order
LocaleOrder == <<"README.md", "en", "pt", "pt-br">>

l10nFiles == SelectSeq(LocaleOrder, LAMBDA f : f \in DOMAIN tree.l10n)

\* const l10nFiles = fs.readdirSync(...); const languages = []
ReadLocales ==
    /\ pc = "addons" /\ idx > Len(addons)
    /\ pc' = "l10n" /\ idx' = 1
    /\ languages' = <<>>
    /\ UNCHANGED <<run, argv, repo, tree, addons, newAddons, fs, cleared, commitHash,
                   reqState, exitStatus, addonIdToManifest, prev, args, ret>>

isDirectory(file) == ~Has(file, "text")

\* Convert pt-br to just pt
fixedName(file) == IF file = "pt-br" THEN "pt" ELSE file

\* a variant of writesSettings that writes the settings of every locale
writesSettingsAlways(name) == TRUE

\* if (fixedName !== 'en'): the settings file is written
writesSettings(name) == name # "en"

\* one iteration of the loop over l10nFiles
ProcessLocale ==
    /\ pc = "l10n" /\ idx <= Len(l10nFiles)
    /\ LET file == l10nFiles[idx]
           oldDirectory == tree.l10n[file]
           name == fixedName(file)
           messages == parseMessages(oldDirectory).value
           runtimeWritten == writeFileSync(fs, <<"addons-l10n", name \o ".json">>,
                                           [json |-> messages.runtime])
       IN IF ~isDirectory(oldDirectory)
          THEN UNCHANGED <<fs, languages>>
          ELSE /\ languages' = Append(languages, name)
               /\ fs' = IF writesSettings(name)
                        THEN writeFileSync(runtimeWritten,
                                           <<"addons-l10n-settings", name \o ".json">>,
                                           [json |-> messages.settings])
                        ELSE runtimeWritten
    /\ idx' = idx + 1
    /\ UNCHANGED <<pc, run, argv, repo, tree, addons, newAddons, cleared, commitHash,
                   reqState, exitStatus, addonIdToManifest, prev, args, ret>>

\* writeFileSync(resolve(generatedPath, name), document): the document is
\* generated first, and nothing is written when generating it throws
WriteGenerated(name, document, next) ==
    /\ IF document.threw
       THEN Abort /\ UNCHANGED fs
       ELSE /\ fs' = writeFileSync(fs, generatedPath(name), document.value)
            /\ pc' = next
            /\ UNCHANGED exitStatus
    /\ UNCHANGED <<idx, run, argv, repo, tree, addons, newAddons, cleared, commitHash,
                   reqState, addonIdToManifest, languages, prev, args, ret>>

WriteL10nEntries ==
    /\ pc = "l10n" /\ idx > Len(l10nFiles)
    /\ WriteGenerated("l10n-entries.js", generateL10nEntries(languages),
                      "l10n-settings-entries")

WriteL10nSettingsEntries ==
    /\ pc = "l10n-settings-entries"
    /\ WriteGenerated("l10n-settings-entries.js", generateL10nSettingsEntries(languages),
                      "addon-entries")

WriteAddonEntries ==
    /\ pc = "addon-entries"
    /\ WriteGenerated("addon-entries.js", generateRuntimeEntries, "addon-manifests")

WriteAddonManifests ==
    /\ pc = "addon-manifests"
    /\ WriteGenerated("addon-manifests.js", generateManifestEntries, "upstream-meta")

\* a variant of upstreamMeta that records the commit in a second field too
upstreamMetaTwice(commit) == [json |-> [commit |-> commit, version |-> commit]]

\* JSON.stringify({commit: commitHash})
upstreamMeta(commit) == [json |-> [commit |-> commit]]

WriteUpstreamMeta ==
    /\ pc = "upstream-meta"
    /\ WriteGenerated("upstream-meta.json", Return(upstreamMeta(commitHash)), "done")

(***************************************************************************)
(* The callback of the contributor request.  It runs on the event loop,    *)
(* so only once the main control flow has run to its end; a process that   *)
(* an exception has ended runs no callback.  An exception the callback     *)
(* throws is uncaught: the process ends with status 1.                     *)
(***************************************************************************)
Contributors ==
    <<[login |-> "ann", contributions |-> <<"code", "translation">>],
      [login |-> "bob", contributions |-> <<"code">>]>>

\* what request hands the callback: an error and no body, or a body
Responses ==
    {[err |-> "ENOTFOUND"],
     [body |-> [text |-> <<"404: Not Found">>]],
     [body |-> [json |-> [projectName |-> "contributors"]]],
     [body |-> [json |-> [contributors |-> Contributors]]]}

\* the body of the callback: JSON.parse(body), the filter, the document
translators(response) ==
    IF ~Has(response, "body")
    THEN Throw("SyntaxError: \"undefined\" is not valid JSON")
    ELSE IF ~Has(response.body, "json")
    THEN Throw("SyntaxError: Unexpected token")
    ELSE IF ~Has(response.body.json, "contributors")
    THEN Throw("TypeError: Cannot read properties of undefined (reading 'filter')")
    ELSE Return([json |-> SelectSeq(response.body.json.contributors,
                            LAMBDA c : "translation" \in Range(c.contributions))])

Callback ==
    /\ pc = "done" /\ reqState = "pending"
    /\ \E response \in Responses :
          LET document == translators(response)
          IN IF document.threw
             THEN /\ reqState' = "threw"
                  /\ exitStatus' = "1"
                  /\ UNCHANGED fs
             ELSE /\ reqState' = "written"
                  /\ exitStatus' = "0"
                  /\ fs' = writeFileSync(fs, generatedPath("translators.json"), document.value)
    /\ UNCHANGED <<pc, idx, run, argv, repo, tree, addons, newAddons, cleared, commitHash,
                   addonIdToManifest, languages, prev, args, ret>>

(***************************************************************************)
(* The script is run again, on the same tree.                              *)
(***************************************************************************)
Ended == exitStatus # "running"

Completed == pc = "done" /\ Ended

Contents(files) == [q \in DOMAIN files |-> files[q].contents]

RunAgain ==
    /\ Ended /\ run < MaxRuns
    /\ run' = run + 1
    /\ argv' \in {{}, {"-"}}
    /\ prev' = IF Completed THEN [complete |-> TRUE, tree |-> Contents(fs)] ELSE prev
    /\ fs' = [q \in DOMAIN fs |-> [fs[q] EXCEPT !.stale = TRUE]]
    /\ pc' = "clone" /\ idx' = 0 /\ cleared' = {} /\ commitHash' = undefined
    /\ reqState' = "none" /\ exitStatus' = "running"
    /\ addonIdToManifest' = EmptyMap /\ languages' = <<>>
    /\ UNCHANGED <<repo, tree, addons, newAddons, args, ret>>

(***************************************************************************)
(* The upstream trees and the initial states of the driver.                *)
(***************************************************************************)
DriverManifest ==
    [tags |-> <<"recommended", "editor">>, enabledByDefault |-> TRUE,
     versionAdded |-> "1.0.0",
     userscripts |-> <<[url |-> "userscript.js", matches |-> <<"projects">>]>>]

AddonDirectories ==
    {NoDirectory,
     "userscript.js" :> [text |-> <<LineCode>>],
     ("addon.json" :> [json |-> DriverManifest])
        @@ ("userscript.js" :> [text |-> <<LineLibraryImport, LineEventTarget, LineDirConcat>>])
        @@ ("icon.svg" :> [binary |-> "<svg/>"])}

LocaleDirectory(value) ==
    "a.json" :> [json |-> [id \in {"foo/bar", "foo/@settings-name"} |-> value]]

LocaleTrees ==
    {("README.md" :> [text |-> <<"# Translations">>]) @@ en @@ pt @@ br :
        en \in Opt("en", {LocaleDirectory("x")}),
        pt \in Opt("pt", {LocaleDirectory("y")}),
        br \in Opt("pt-br", {LocaleDirectory("x")})}

StalePaths ==
    {<<"addons", "removed/userscript.js">>, <<"addons-l10n", "tlh.json">>,
     <<"addons-l10n-settings", "tlh.json">>, <<"libraries", "old.js">>,
     <<"generated", "translators.json">>}

InitialOutputs ==
    {EmptyMap, [q \in StalePaths |-> [contents |-> [text |-> <<"stale">>], stale |-> TRUE]]}

Init ==
    /\ pc = "clone" /\ idx = 0 /\ run = 1
    /\ argv \in {{}, {"-"}}
    /\ repo \in {"absent"} \cup Commits
    /\ addons \in AddonLists
    /\ newAddons = <<"a">>
    /\ tree \in [addons : [AddonIds -> AddonDirectories], l10n : LocaleTrees]
    /\ \A id \in AddonIds \ Range(addons) : tree.addons[id] = NoDirectory
    /\ fs \in InitialOutputs
    /\ cleared = {} /\ commitHash = undefined /\ reqState = "none"
    /\ exitStatus = "running" /\ addonIdToManifest = EmptyMap /\ languages = <<>>
    /\ prev = [complete |-> FALSE]
    /\ args = EmptyMap /\ ret = Pending

Next ==
    \/ Clone
    \/ CloneFails
    \/ SkipClone
    \/ ClearOutputFolders
    \/ ClearGenerated
    \/ RevParse
    \/ ChdirFails
    \/ Request
    \/ ProcessAddon
    \/ ReadLocales
    \/ ProcessLocale
    \/ WriteL10nEntries
    \/ WriteL10nSettingsEntries
    \/ WriteAddonEntries
    \/ WriteAddonManifests
    \/ WriteUpstreamMeta
    \/ Callback
    \/ RunAgain

Spec == Init /\ [][Next]_vars

(***************************************************************************)
(* Properties of the driver.                                               *)
(***************************************************************************)
AllFolders == {"addons", "addons-l10n", "addons-l10n-settings", "libraries", "generated"}

Fresh(path) == path \in DOMAIN fs /\ ~fs[path].stale

NoStaleFile == \A q \in DOMAIN fs : ~fs[q].stale

\* a step writes the file at path q: the file is new, or its contents change
Writes(q) ==
    /\ q \in DOMAIN fs' /\ ~fs'[q].stale
    /\ q \notin DOMAIN fs \/ fs[q] # fs'[q]

GeneratedDocuments ==
    {"l10n-entries.js", "l10n-settings-entries.js", "addon-entries.js", "addon-manifests.js"}

KeysOf(name) ==
    LET document == fs[generatedPath(name)].contents
    IN [k \in DOMAIN document.exportSection |-> document.exportSection[k].key]

\* C2, as stated: no entry table written by the four call sites of
\* generateEntries has the same key twice, whatever the locale folders (after
\* the renaming of pt-br to pt) and the addon list.
C2_UniqueKeys ==
    \A name \in GeneratedDocuments : Fresh(generatedPath(name)) => NoDuplicates(KeysOf(name))

MainOutputs == GeneratedDocuments \cup {"upstream-meta.json"}

\* C3, as stated: a failure of the callback of the contributor request leaves
\* the exit status of the run what a successful fetch makes it, and every
\* output file of the main pipeline written.
C3_CallbackFailureIsolated ==
    reqState = "threw" =>
        /\ exitStatus = "0"
        /\ \A name \in MainOutputs : Fresh(generatedPath(name))

\* the tree with the commit field of upstream-meta.json blanked
WithoutCommit(files) ==
    [q \in DOMAIN files |->
        IF q = generatedPath("upstream-meta.json") /\ Has(files[q], "json")
           /\ Has(files[q].json, "commit")
        THEN [json |-> [files[q].json EXCEPT !["commit"] = "*"]]
        ELSE files[q]]

WithoutTranslators(files) ==
    [q \in DOMAIN files \ {generatedPath("translators.json")} |-> files[q]]

\* C8, as stated: two completed runs on the same tree, addon list and checkout
\* leave the same files with the same contents, but for the commit field of
\* upstream-meta.json.
C8_Deterministic ==
    (Completed /\ prev.complete) =>
        WithoutCommit(Contents(fs)) = WithoutCommit(prev.tree)

\* C8, amended: two completed runs on the same tree, addon list and checkout
\* leave the same files with the same contents, but for the commit field of
\* upstream-meta.json and for translators.json, which is there or not, with
\* the contents the contributor request delivered, as that request went.
C8_DeterministicButTranslators ==
    (Completed /\ prev.complete) =>
        WithoutTranslators(WithoutCommit(Contents(fs)))
            = WithoutTranslators(WithoutCommit(prev.tree))

C8_Witness ==
    /\ Completed /\ prev.complete
    /\ Len(addons) = 2 /\ languages = <<"en", "pt", "pt">>
    /\ fs[generatedPath("upstream-meta.json")].contents
          # prev.tree[generatedPath("upstream-meta.json")]
    /\ Fresh(generatedPath("translators.json"))
    /\ generatedPath("translators.json") \notin DOMAIN prev.tree

LocaleNames == {"README.md", "en", "pt", "pt-br"}

HasManifest(id) == tree.addons[id] # NoDirectory /\ Has(tree.addons[id], "addon.json")

\* every entry of the document stands for a name of the universe, has the
\* source path of that name, and the file of that path was written
EntriesResolve(name, universe, srcPrefix, srcSuffix, folder, pathPrefix, pathSuffix) ==
    LET document == fs[generatedPath(name)].contents
    IN \A k \in DOMAIN document.exportSection :
          \E x \in universe :
             /\ document.exportSection[k].key = "\"" \o x \o "\""
             /\ \/ Has(document.exportSection[k], "binding")
                \/ document.exportSection[k].src = "\"" \o srcPrefix \o x \o srcSuffix \o "\""
             /\ Fresh(<<folder, pathPrefix \o x \o pathSuffix>>)

ImportsResolve(name, universe, srcPrefix, srcSuffix, folder, pathPrefix, pathSuffix) ==
    LET document == fs[generatedPath(name)].contents
    IN \A k \in DOMAIN document.importSection :
          \E x \in universe :
             /\ document.importSection[k].src = "\"" \o srcPrefix \o x \o srcSuffix \o "\""
             /\ Fresh(<<folder, pathPrefix \o x \o pathSuffix>>)

\* C10: when the main pipeline has run to completion, every source path the
\* four index documents refer to is a file this run wrote; the settings file
\* of a locale is written exactly when the locale has a settings entry (every
\* locale but en); and an addon of the list without an addon.json at the top
\* of its directory makes the run abort before addon-entries.js and
\* addon-manifests.js are written.
C10_IndexSourcesExist ==
    /\ pc = "done" =>
          /\ \A name \in GeneratedDocuments : Fresh(generatedPath(name))
          /\ EntriesResolve("l10n-entries.js", LocaleNames, "../addons-l10n/", ".json",
                            "addons-l10n", "", ".json")
          /\ EntriesResolve("l10n-settings-entries.js", LocaleNames,
                            "../addons-l10n-settings/", ".json",
                            "addons-l10n-settings", "", ".json")
          /\ {x \in LocaleNames : Fresh(<<"addons-l10n-settings", x \o ".json">>)}
                = {x \in LocaleNames :
                     \E k \in DOMAIN KeysOf("l10n-settings-entries.js") :
                        KeysOf("l10n-settings-entries.js")[k] = "\"" \o x \o "\""}
          /\ {x \in LocaleNames : Fresh(<<"addons-l10n-settings", x \o ".json">>)}
                = Range(languages) \ {"en"}
          /\ Len(KeysOf("addon-entries.js")) = Len(addons)
          /\ Len(KeysOf("addon-manifests.js")) = Len(addons)
          /\ EntriesResolve("addon-entries.js", Range(addons), "../addons/",
                            "/_runtime_entry.js", "addons", "", "/_runtime_entry.js")
          /\ EntriesResolve("addon-manifests.js", Range(addons), "../addons/",
                            "/_manifest_entry.js", "addons", "", "/_manifest_entry.js")
          /\ ImportsResolve("addon-manifests.js", Range(addons), "../addons/",
                            "/_manifest_entry.js", "addons", "", "/_manifest_entry.js")
    /\ (\E k \in DOMAIN addons : ~HasManifest(addons[k])) =>
          /\ pc # "done"
          /\ ~Fresh(generatedPath("addon-entries.js"))
          /\ ~Fresh(generatedPath("addon-manifests.js"))
          /\ Ended => pc = "aborted"

C10_Witness ==
    /\ pc = "done"
    /\ Len(addons) = 2 /\ addons[1] # addons[2]
    /\ languages = <<"en", "pt", "pt">>
    /\ Fresh(<<"addons-l10n", "en.json">>)
    /\ ~Fresh(<<"addons-l10n-settings", "en.json">>)
    /\ Len(fs[generatedPath("addon-manifests.js")].contents.importSection) = 2
====
